---- MODULE Spec2Model ----
(***************************************************************************)
(* The profile-edit page (src/src/pages/ProfileEditPage.jsx) as a state    *)
(* machine: the component's useState fields, the initial load, the field   *)
(* and document handlers, and handleSubmit with its save request, its      *)
(* upload-progress events and its follow-up read.                          *)
(***************************************************************************)
EXTENDS Naturals, Sequences, FiniteSets, TLC

(***************************************************************************)
(* Strings.  TLC treats a string as a sequence of one-character strings,   *)
(* so the JavaScript string methods the page uses are computed here.       *)
(***************************************************************************)
UpperLetters == "ABCDEFGHIJKLMNOPQRSTUVWXYZ"

LowerLetters == "abcdefghijklmnopqrstuvwxyz"

\* String.prototype.toLowerCase, letter by letter.
LowerOf ==
    [ c \in { SubSeq(UpperLetters, i, i) : i \in 1..Len(UpperLetters) } |->
        LET i == CHOOSE j \in 1..Len(UpperLetters) : SubSeq(UpperLetters, j, j) = c
        IN  SubSeq(LowerLetters, i, i) ]

toLowerChar(c) == IF c \in DOMAIN LowerOf THEN LowerOf[c] ELSE c

RECURSIVE toLowerCase(_)
toLowerCase(s) ==
    IF Len(s) = 0 THEN ""
    ELSE toLowerChar(SubSeq(s, 1, 1)) \o toLowerCase(SubSeq(s, 2, Len(s)))

endsWith(s, suffix) ==
    /\ Len(s) >= Len(suffix)
    /\ SubSeq(s, Len(s) - Len(suffix) + 1, Len(s)) = suffix

includes(s, part) ==
    \E i \in 1..(Len(s) + 1) :
        /\ i + Len(part) - 1 <= Len(s)
        /\ SubSeq(s, i, i + Len(part) - 1) = part

isSpace(c) == c = " "

RECURSIVE trimStart(_)
trimStart(s) ==
    IF Len(s) > 0 /\ isSpace(SubSeq(s, 1, 1))
    THEN trimStart(SubSeq(s, 2, Len(s)))
    ELSE s

RECURSIVE trimEnd(_)
trimEnd(s) ==
    IF Len(s) > 0 /\ isSpace(SubSeq(s, Len(s), Len(s)))
    THEN trimEnd(SubSeq(s, 1, Len(s) - 1))
    ELSE s

trim(s) == trimEnd(trimStart(s))

\* a || b || c: the first truthy (non-empty) string, else the last.
Or2(a, b) == IF a # "" THEN a ELSE b

Or3(a, b, c) == Or2(a, Or2(b, c))

\* user?.key: the key's value, or the empty (falsy) string when absent.
Get(obj, key) == IF key \in DOMAIN obj THEN obj[key] ELSE ""

(***************************************************************************)
(* The buffer and the server's representation of a user.                   *)
(***************************************************************************)
defaultForm ==
    [ role |-> "volunteer", fullName |-> "", email |-> "", phone |-> "",
      bio |-> "", skills |-> "", address |-> "", dateOfBirth |-> "",
      profileImageUrl |-> "", volunteerDocumentUrl |-> "",
      organizationName |-> "", registrationNumber |-> "",
      organizationAddress |-> "", organizationWebsite |-> "",
      contactPerson |-> "", organizationDescription |-> "",
      ngoProofDocumentUrl |-> "" ]

\* Mutant: the role is compared as the server spelt it.
normalizeRole_CaseSensitive(role) == IF role = "ngo" THEN "ngo" ELSE "volunteer"

normalizeRole(role) == IF toLowerCase(role) = "ngo" THEN "ngo" ELSE "volunteer"

\* Array.prototype.join.
RECURSIVE join(_, _)
join(items, sep) ==
    IF Len(items) = 0 THEN ""
    ELSE IF Len(items) = 1 THEN items[1]
    ELSE items[1] \o sep \o join(Tail(items), sep)

\* user?.organization?.key
GetOrg(user, key) ==
    IF "organization" \in DOMAIN user THEN Get(user.organization, key) ELSE ""

\* A skills value is [isArray, items]: Array.isArray decides whether it is joined.
skillsText(user) ==
    IF "skills" \in DOMAIN user /\ user.skills.isArray
    THEN join(user.skills.items, ", ")
    ELSE ""

mapUserToForm(user) ==
    [ role |-> normalizeRole(Get(user, "role")),
      fullName |-> Or3(Get(user, "fullName"), Get(user, "name"), ""),
      email |-> Get(user, "email"),
      phone |-> Get(user, "phone"),
      bio |-> Get(user, "bio"),
      skills |-> skillsText(user),
      address |-> Get(user, "address"),
      dateOfBirth |-> Or3(Get(user, "dateOfBirth"), Get(user, "dob"), ""),
      profileImageUrl |-> Or3(Get(user, "profileImageUrl"), Get(user, "avatarUrl"), ""),
      volunteerDocumentUrl |->
          Or3(Get(user, "volunteerDocumentUrl"), Get(user, "documentUrl"),
              Get(user, "resumeUrl")),
      organizationName |-> Or2(Get(user, "organizationName"), GetOrg(user, "name")),
      registrationNumber |->
          Or2(Get(user, "registrationNumber"), GetOrg(user, "registrationNumber")),
      organizationAddress |->
          Or2(Get(user, "organizationAddress"), GetOrg(user, "address")),
      organizationWebsite |->
          Or2(Get(user, "organizationWebsite"), GetOrg(user, "website")),
      contactPerson |-> Or2(Get(user, "contactPerson"), GetOrg(user, "contactPerson")),
      organizationDescription |->
          Or2(Get(user, "organizationDescription"), GetOrg(user, "description")),
      ngoProofDocumentUrl |->
          Or2(Get(user, "ngoProofDocumentUrl"), GetOrg(user, "proofDocumentUrl")) ]

(***************************************************************************)
(* Documents.  A File is [name, type]; NoFile stands for null.             *)
(***************************************************************************)
NoFile == [name |-> "", type |-> ""]

allowedMimeTypes ==
    { "application/pdf", "application/msword",
      "application/vnd.openxmlformats-officedocument.wordprocessingml.document" }

isAllowedDocument(file) ==
    LET lowerName == toLowerCase(file.name)
    IN  \/ file.type \in allowedMimeTypes
        \/ endsWith(lowerName, ".pdf")
        \/ endsWith(lowerName, ".doc")
        \/ endsWith(lowerName, ".docx")

(***************************************************************************)
(* The multipart payload, as a function from field name to value.          *)
(***************************************************************************)
\* String.prototype.split(',').
RECURSIVE splitFrom(_, _, _)
splitFrom(s, i, acc) ==
    IF i > Len(s) THEN <<acc>>
    ELSE IF SubSeq(s, i, i) = "," THEN <<acc>> \o splitFrom(s, i + 1, "")
    ELSE splitFrom(s, i + 1, acc \o SubSeq(s, i, i))

split(s) == splitFrom(s, 1, "")

\* .map((value) => value.trim()).filter(Boolean)
RECURSIVE trimmedNonEmpty(_)
trimmedNonEmpty(items) ==
    IF Len(items) = 0 THEN <<>>
    ELSE LET head == trim(items[1])
         IN  (IF head = "" THEN <<>> ELSE <<head>>) \o trimmedNonEmpty(Tail(items))

RECURSIVE quoteAll(_)
quoteAll(items) ==
    IF Len(items) = 0 THEN <<>>
    ELSE <<"\"" \o items[1] \o "\"">> \o quoteAll(Tail(items))

\* JSON.stringify of an array of strings (none of which needs escaping).
stringifyList(items) == "[" \o join(quoteAll(items), ",") \o "]"

Field(name, value) == name :> [text |-> value, file |-> NoFile]

FileField(name, file) == name :> [text |-> "", file |-> file]

Empty == [name \in {} |-> [text |-> "", file |-> NoFile]]

\* Mutant: the skills are sent whatever the role.
buildFormData_AlwaysSkills(form, volunteerDocumentFile, ngoProofFile, removeVolunteerDocument, removeNgoProofDocument) ==
    Field("role", form.role)
    @@ Field("fullName", trim(form.fullName))
    @@ Field("email", trim(form.email))
    @@ Field("phone", trim(form.phone))
    @@ Field("bio", trim(form.bio))
    @@ Field("address", trim(form.address))
    @@ Field("dateOfBirth", form.dateOfBirth)
    @@ Field("profileImageUrl", trim(form.profileImageUrl))
    @@ Field("skills", stringifyList(trimmedNonEmpty(split(form.skills))))
    @@ (IF form.role = "volunteer"
        THEN (IF volunteerDocumentFile # NoFile
                 THEN FileField("file", volunteerDocumentFile) ELSE Empty)
             @@ (IF removeVolunteerDocument
                 THEN Field("removeDocument", "true") ELSE Empty)
        ELSE Empty)
    @@ (IF form.role = "ngo"
        THEN Field("organizationName", trim(form.organizationName))
             @@ Field("registrationNumber", trim(form.registrationNumber))
             @@ Field("organizationAddress", trim(form.organizationAddress))
             @@ Field("organizationWebsite", trim(form.organizationWebsite))
             @@ Field("contactPerson", trim(form.contactPerson))
             @@ Field("organizationDescription", trim(form.organizationDescription))
             @@ (IF ngoProofFile # NoFile
                 THEN FileField("ngoProofFile", ngoProofFile) ELSE Empty)
             @@ (IF removeNgoProofDocument
                 THEN Field("removeNgoProofDocument", "true") ELSE Empty)
        ELSE Empty)

\* Lines 138-187.
buildFormData(form, volunteerDocumentFile, ngoProofFile, removeVolunteerDocument, removeNgoProofDocument) ==
    Field("role", form.role)
    @@ Field("fullName", trim(form.fullName))
    @@ Field("email", trim(form.email))
    @@ Field("phone", trim(form.phone))
    @@ Field("bio", trim(form.bio))
    @@ Field("address", trim(form.address))
    @@ Field("dateOfBirth", form.dateOfBirth)
    @@ Field("profileImageUrl", trim(form.profileImageUrl))
    @@ (IF form.role = "volunteer"
        THEN Field("skills", stringifyList(trimmedNonEmpty(split(form.skills))))
             @@ (IF volunteerDocumentFile # NoFile
                 THEN FileField("file", volunteerDocumentFile) ELSE Empty)
             @@ (IF removeVolunteerDocument
                 THEN Field("removeDocument", "true") ELSE Empty)
        ELSE Empty)
    @@ (IF form.role = "ngo"
        THEN Field("organizationName", trim(form.organizationName))
             @@ Field("registrationNumber", trim(form.registrationNumber))
             @@ Field("organizationAddress", trim(form.organizationAddress))
             @@ Field("organizationWebsite", trim(form.organizationWebsite))
             @@ Field("contactPerson", trim(form.contactPerson))
             @@ Field("organizationDescription", trim(form.organizationDescription))
             @@ (IF ngoProofFile # NoFile
                 THEN FileField("ngoProofFile", ngoProofFile) ELSE Empty)
             @@ (IF removeNgoProofDocument
                 THEN Field("removeNgoProofDocument", "true") ELSE Empty)
        ELSE Empty)

(***************************************************************************)
(* Responses.  A response is [failed, status, contentType, body]: failed   *)
(* is a transport failure (fetch rejects, the request's onerror fires).    *)
(* A body is [kind, value]: its text is empty, malformed, or JSON for      *)
(* null, a number, a string, an array or an object (value: its keys).      *)
(***************************************************************************)
NoKeys == [key \in {} |-> ""]

Body(kind) == [kind |-> kind, value |-> NoKeys]

ObjectBody(object) == [kind |-> "object", value |-> object]

isOk(status) == status >= 200 /\ status < 300

isJsonResponse(response) ==
    includes(toLowerCase(response.contentType), "application/json")

isHtmlResponse(response) ==
    includes(toLowerCase(response.contentType), "text/html")

\* JSON.parse / response.json() gave a truthy value of typeof 'object'.
parsesToObject(body) == body.kind \in {"object", "array"}

\* readResponseJson(response) gave a truthy value of typeof 'object'.
readsObject(response) == isJsonResponse(response) /\ parsesToObject(response.body)

ApiNotReachable == "API not reachable. Set VITE_API_BASE_URL to your backend URL."

UnableToFetch == "Unable to fetch profile details."

InvalidProfileData == "Invalid profile data from server."

OnlyPdfOrDoc == "Please upload a PDF or DOC file only."

NetworkErrorWhileUpdating == "Network error while updating profile."

UpdateFailed == "Profile update failed. Please try again."

UpdatedSuccessfully == "Your profile has been updated successfully."

ToastText == "Profile updated successfully."

\* The message of the load's thrown error (lines 219-235), "" when none.
loadError(response, fetchMessage) ==
    IF response.failed THEN fetchMessage
    ELSE IF ~isOk(response.status)
         THEN (IF isHtmlResponse(response) THEN ApiNotReachable ELSE UnableToFetch)
    ELSE IF ~readsObject(response) THEN InvalidProfileData
    ELSE ""

\* Mutant: the save does not look at the content type of a refusal.
saveError_IgnoresHtml(response) ==
    IF response.failed THEN NetworkErrorWhileUpdating
    ELSE IF isOk(response.status) THEN ""
    ELSE IF /\ parsesToObject(response.body)
            /\ "message" \in DOMAIN response.body.value
            /\ response.body.value.message # ""
         THEN response.body.value.message
    ELSE UpdateFailed

\* The message of the save's thrown error (lines 381, 401-423), "" when none.
saveError(response) ==
    IF response.failed THEN NetworkErrorWhileUpdating
    ELSE IF isOk(response.status) THEN ""
    ELSE IF includes(toLowerCase(response.contentType), "text/html") THEN ApiNotReachable
    ELSE IF /\ parsesToObject(response.body)
            /\ "message" \in DOMAIN response.body.value
            /\ response.body.value.message # ""
         THEN response.body.value.message
    ELSE UpdateFailed

\* Math.round((loaded / total) * 100)
percent(loaded, total) == (200 * loaded + total) \div (2 * total)

(***************************************************************************)
(* Bounds and the inputs drawn within them.                                *)
(***************************************************************************)
\* How many of EditOrder's edits the user makes use of.
MaxEdits == 1

\* The largest total of an upload-progress event.
MaxTotal == 1

\* The delay of the toast effect's timer, in ms.
ToastDelay == 2500

\* The time one step of the clock takes, in ms: half the toast delay.
ClockStep == ToastDelay \div 2

\* The edits of a named input: the input's name and the text typed.
EditOrder ==
    << [name |-> "fullName", value |-> "Ann Lee"],
       [name |-> "organizationName", value |-> ""],
       [name |-> "skills", value |-> " a, b "],
       [name |-> "bio", value |-> "x"] >>

Prefix(seq, n) == { seq[i] : i \in 1..(IF n < Len(seq) THEN n ELSE Len(seq)) }

Edits == Prefix(EditOrder, MaxEdits)

Skills(items) == [isArray |-> TRUE, items |-> items]

Users ==
    { [ role |-> "Volunteer", fullName |-> "Ann Lee", email |-> "ann@x.org",
        skills |-> Skills(<<"Teaching", "First Aid">>), resumeUrl |-> "/docs/cv.pdf" ],
      [ email |-> "ann@x.org", name |-> "Ann Lee" ],
      [ role |-> "NGO", name |-> "Bo", email |-> "bo@aid.org",
        organization |-> [ name |-> "Aid", description |-> "Relief",
                           proofDocumentUrl |-> "/docs/proof.pdf" ] ],
      [ role |-> "ngo", fullName |-> "Bo", email |-> "bo@aid.org",
        organizationName |-> "Aid", organizationDescription |-> "Relief",
        skills |-> Skills(<<"Logistics">>) ] }

Files ==
    { [name |-> "resume.exe", type |-> "application/x-msdownload"],
      [name |-> "Scan.PDF", type |-> ""],
      [name |-> "letter", type |-> "application/msword"] }

Reply(status, contentType, body) ==
    [failed |-> FALSE, status |-> status, contentType |-> contentType, body |-> body]

Json == "application/json; charset=utf-8"

EmailInUse == ObjectBody([message |-> "Email already in use"])

TransportFailure ==
    [failed |-> TRUE, status |-> 0, contentType |-> "", body |-> Body("empty")]

Responses ==
    { TransportFailure,
      Reply(200, Json, Body("array")), Reply(200, Json, Body("malformed")),
      Reply(204, "", Body("empty")), Reply(200, "Text/HTML", Body("malformed")),
      Reply(502, "Text/HTML", Body("malformed")), Reply(502, "text/html", EmailInUse),
      Reply(400, Json, EmailInUse), Reply(400, "", EmailInUse),
      Reply(400, Json, Body("null")), Reply(500, "", Body("empty")),
      Reply(422, Json, ObjectBody([message |-> ""])) }
    \cup { Reply(200, Json, ObjectBody(user)) : user \in Users }
    \cup { Reply(200, "", ObjectBody([name |-> "Ann Lee"])) }

\* The message of the TypeError a rejected fetch carries is the browser's.
FetchMessages == {"Failed to fetch", "Load failed"}

(***************************************************************************)
(* State.                                                                  *)
(***************************************************************************)
VARIABLES
    form, loading, saving, uploadProgress, error, success, toast,
    volunteerDocumentFile, ngoProofFile,
    removeVolunteerDocument, removeNgoProofDocument,
    mounted,            \* the load effect's flag; FALSE once the page is unmounted
    loadRequest,        \* "pending" | "done": the initial GET
    saveRequest,        \* "none" | "put" | "get": the request handleSubmit awaits
    formData,           \* the payload of the PUT in flight
    volunteerInput,     \* the file held by the volunteer file control
    ngoInput,           \* the file held by the NGO file control
    lastDocEvent,       \* history: the document event just handled, if any
    removalPending,     \* history: slots whose remote document the user removed
                        \* and has not replaced, not yet submitted
    volunteerSelectedFileHref,  \* the memoized preview URL of each slot, "" when
    ngoSelectedFileHref,        \* the slot has no staged file
    objectUrls,         \* the browser's live object URLs
    staleRevoke,        \* history: a URL that was not live has been revoked
    inFlight,           \* the transport: how many requests of each kind ("load",
                        \* "put", "get") are sent and not yet settled
    lastReply,          \* history: the request that just settled on the mounted
                        \* page, and its outcome
    toastElapsed        \* ms the toast effect's timer has run; 0 when none is armed

state ==
    << form, loading, saving, uploadProgress, error, success, toast,
       volunteerDocumentFile, ngoProofFile,
       removeVolunteerDocument, removeNgoProofDocument >>

vars ==
    << form, loading, saving, uploadProgress, error, success, toast,
       volunteerDocumentFile, ngoProofFile,
       removeVolunteerDocument, removeNgoProofDocument,
       mounted, loadRequest, saveRequest, formData,
       volunteerInput, ngoInput, lastDocEvent, removalPending,
       volunteerSelectedFileHref, ngoSelectedFileHref, objectUrls, staleRevoke,
       inFlight, lastReply,
       toastElapsed >>

\* A document event: a file-change ("select") or a Remove File click
\* ("remove"), its slot, its file, and the error shown before it.
DocEvent(op, slot, file) == [op |-> op, slot |-> slot, file |-> file, before |-> error]

NoDocEvent == [op |-> "", slot |-> "", file |-> NoFile, before |-> ""]

\* Mutant: a request is sent twice.
send_Twice(requests, request) == [requests EXCEPT ![request] = @ + 2]

\* fetch(...) at lines 220 and 437, request.send(formData) at line 398.
send(requests, request) == [requests EXCEPT ![request] = @ + 1]

\* The request's promise settles (the awaits at lines 220, 361 and 437).
settle(requests, request) == [requests EXCEPT ![request] = @ - 1]

\* The outcome of a request ("load", "put" or "get") that has just settled.
Settled(request, response) == [request |-> request, response |-> response]

NoReply == Settled("", TransportFailure)

Init ==
    /\ form = defaultForm
    /\ loading = TRUE
    /\ saving = FALSE
    /\ uploadProgress = 0
    /\ error = ""
    /\ success = ""
    /\ toast = ""
    /\ volunteerDocumentFile = NoFile
    /\ ngoProofFile = NoFile
    /\ removeVolunteerDocument = FALSE
    /\ removeNgoProofDocument = FALSE
    /\ mounted = TRUE
    /\ loadRequest = "pending"
    /\ saveRequest = "none"
    /\ formData = Empty
    /\ volunteerInput = NoFile
    /\ ngoInput = NoFile
    /\ lastDocEvent = NoDocEvent
    /\ removalPending = {}
    /\ volunteerSelectedFileHref = ""
    /\ ngoSelectedFileHref = ""
    /\ objectUrls = {}
    /\ staleRevoke = FALSE
    /\ inFlight = [load |-> 1, put |-> 0, get |-> 0]
    /\ lastReply = NoReply
    /\ toastElapsed = 0

\* URL.createObjectURL: a URL for the file ("" stands for no URL).
createObjectURL(slot, file) == "blob:" \o slot \o "/" \o file.name

\* Lines 202-210: useMemo keeps the URL while the slot's file is the same and
\* makes a new one (or '') when the file has changed.
selectedFileHref(slot, file, newFile, href) ==
    IF newFile = file THEN href
    ELSE IF newFile # NoFile THEN createObjectURL(slot, newFile)
    ELSE ""

created(href, newHref) == IF newHref # href /\ newHref # "" THEN {newHref} ELSE {}

\* Mutant: the cleanup of a superseded URL revokes nothing.
revoked_Never(href, newHref) == {}

\* Lines 278-292: when the URL has changed, the effect's cleanup revokes the
\* earlier one.
revoked(href, newHref) == IF newHref # href /\ href # "" THEN {href} ELSE {}

\* The render after an update and its commit: the memoized URLs, and the
\* object URLs created and revoked.
useObjectUrls ==
    /\ volunteerSelectedFileHref' =
           selectedFileHref("volunteer", volunteerDocumentFile,
                            volunteerDocumentFile', volunteerSelectedFileHref)
    /\ ngoSelectedFileHref' =
           selectedFileHref("ngo", ngoProofFile, ngoProofFile', ngoSelectedFileHref)
    /\ objectUrls' =
           (objectUrls
              \cup created(volunteerSelectedFileHref, volunteerSelectedFileHref')
              \cup created(ngoSelectedFileHref, ngoSelectedFileHref'))
           \ (revoked(volunteerSelectedFileHref, volunteerSelectedFileHref')
                \cup revoked(ngoSelectedFileHref, ngoSelectedFileHref'))
    /\ staleRevoke' =
           (\/ staleRevoke
            \/ ~(revoked(volunteerSelectedFileHref, volunteerSelectedFileHref')
                    \subseteq objectUrls)
            \/ ~(revoked(ngoSelectedFileHref, ngoSelectedFileHref')
                    \subseteq objectUrls))

\* Line 294: the text of the role pill.
roleLabel == IF form.role = "ngo" THEN "NGO" ELSE "Volunteer"

\* The form is on screen and takes events.
Interactive == mounted /\ ~loading

\* A section that is not rendered has no file control; a new one is empty.
RenderInputs(newForm) ==
    /\ volunteerInput' = IF newForm.role = "volunteer" THEN volunteerInput ELSE NoFile
    /\ ngoInput' = IF newForm.role = "ngo" THEN ngoInput ELSE NoFile

(***************************************************************************)
(* The initial load (the mount effect, lines 212-264).                     *)
(***************************************************************************)
\* Lines 237-243: the buffer is replaced and the document state reset.
loadSucceeded(user) ==
    /\ form' = mapUserToForm(user)
    /\ volunteerDocumentFile' = NoFile
    /\ ngoProofFile' = NoFile
    /\ removeVolunteerDocument' = FALSE
    /\ removeNgoProofDocument' = FALSE
    /\ UNCHANGED error

\* Lines 244-251: the thrown error's message is shown.
loadFailed(message) ==
    /\ error' = message
    /\ UNCHANGED << form, volunteerDocumentFile, ngoProofFile,
                    removeVolunteerDocument, removeNgoProofDocument >>

\* Mutant: the load updates the state whether or not the page is mounted.
loadMayUpdate_Always == TRUE

\* Lines 237, 245, 253: every update of the load is guarded by the effect's flag.
loadMayUpdate == mounted

loadCurrentProfile(response, fetchMessage) ==
    /\ loadRequest = "pending"
    /\ loadRequest' = "done"
    /\ lastDocEvent' = NoDocEvent
    /\ inFlight' = settle(inFlight, "load")
    /\ lastReply' = IF mounted THEN Settled("load", response) ELSE NoReply
    /\ UNCHANGED toastElapsed
    /\ UNCHANGED removalPending
    /\ IF loadMayUpdate
       THEN /\ IF loadError(response, fetchMessage) = ""
               THEN loadSucceeded(response.body.value)
               ELSE loadFailed(loadError(response, fetchMessage))
            /\ loading' = FALSE
       ELSE UNCHANGED << form, volunteerDocumentFile, ngoProofFile,
                         removeVolunteerDocument, removeNgoProofDocument,
                         error, loading >>
    /\ UNCHANGED << saving, uploadProgress, success, toast, mounted, saveRequest,
                    formData, volunteerInput, ngoInput >>
    /\ useObjectUrls

(***************************************************************************)
(* The field editor.                                                       *)
(***************************************************************************)
\* The named inputs on screen that take input (the email input is disabled).
renderedFields(f) ==
    {"fullName", "phone", "bio", "address", "dateOfBirth"}
    \cup (IF f.role = "volunteer" THEN {"skills"} ELSE {})
    \cup (IF f.role = "ngo"
          THEN {"organizationName", "registrationNumber", "organizationAddress",
                "organizationWebsite", "contactPerson", "organizationDescription"}
          ELSE {})

handleChange(name, value) ==
    /\ Interactive
    /\ name \in renderedFields(form)
    /\ form' = [form EXCEPT ![name] = value]
    /\ lastDocEvent' = NoDocEvent
    /\ UNCHANGED inFlight
    /\ lastReply' = NoReply
    /\ UNCHANGED toastElapsed
    /\ UNCHANGED removalPending
    /\ UNCHANGED << loading, saving, uploadProgress, error, success, toast,
                    volunteerDocumentFile, ngoProofFile, removeVolunteerDocument,
                    removeNgoProofDocument, mounted, loadRequest, saveRequest,
                    formData, volunteerInput, ngoInput >>
    /\ useObjectUrls

(***************************************************************************)
(* The document handlers.  A change event fires when the user's choice     *)
(* differs from what the control holds; file is NoFile when the user       *)
(* clears the choice.                                                      *)
(***************************************************************************)
\* Mutant: a rejected file also drops the file staged before it.
rejectVolunteerFile_DropsStaged ==
    /\ error' = OnlyPdfOrDoc
    /\ volunteerInput' = NoFile
    /\ volunteerDocumentFile' = NoFile
    /\ UNCHANGED removeVolunteerDocument

\* Lines 313-317.
rejectVolunteerFile ==
    /\ error' = OnlyPdfOrDoc
    /\ volunteerInput' = NoFile
    /\ UNCHANGED << volunteerDocumentFile, removeVolunteerDocument >>

\* Mutant: the accepted file leaves a pending removal flag raised.
acceptVolunteerFile_KeepsFlag(file) ==
    /\ error' = ""
    /\ volunteerDocumentFile' = file
    /\ UNCHANGED removeVolunteerDocument
    /\ volunteerInput' = file

\* Lines 319-321.
acceptVolunteerFile(file) ==
    /\ error' = ""
    /\ volunteerDocumentFile' = file
    /\ removeVolunteerDocument' = FALSE
    /\ volunteerInput' = file

handleVolunteerFileChange(file) ==
    /\ Interactive
    /\ form.role = "volunteer"
    /\ file # volunteerInput
    /\ lastDocEvent' = DocEvent("select", "volunteer", file)
    /\ UNCHANGED inFlight
    /\ lastReply' = NoReply
    /\ UNCHANGED toastElapsed
    /\ removalPending' = IF file # NoFile /\ isAllowedDocument(file)
                         THEN removalPending \ {"volunteer"} ELSE removalPending
    /\ IF file = NoFile
       THEN /\ volunteerInput' = NoFile
            /\ UNCHANGED << error, volunteerDocumentFile, removeVolunteerDocument >>
       ELSE IF ~isAllowedDocument(file)
       THEN rejectVolunteerFile
       ELSE acceptVolunteerFile(file)
    /\ UNCHANGED << form, loading, saving, uploadProgress, success, toast,
                    ngoProofFile, removeNgoProofDocument, mounted, loadRequest,
                    saveRequest, formData, ngoInput >>
    /\ useObjectUrls

\* Lines 330-334.
rejectNgoProof ==
    /\ error' = OnlyPdfOrDoc
    /\ ngoInput' = NoFile
    /\ UNCHANGED << ngoProofFile, removeNgoProofDocument >>

\* Mutant: an accepted file leaves the earlier error on screen.
acceptNgoProof_KeepsError(file) ==
    /\ UNCHANGED error
    /\ ngoProofFile' = file
    /\ removeNgoProofDocument' = FALSE
    /\ ngoInput' = file

\* Lines 336-338.
acceptNgoProof(file) ==
    /\ error' = ""
    /\ ngoProofFile' = file
    /\ removeNgoProofDocument' = FALSE
    /\ ngoInput' = file

handleNgoProofChange(file) ==
    /\ Interactive
    /\ form.role = "ngo"
    /\ file # ngoInput
    /\ lastDocEvent' = DocEvent("select", "ngo", file)
    /\ UNCHANGED inFlight
    /\ lastReply' = NoReply
    /\ UNCHANGED toastElapsed
    /\ removalPending' = IF file # NoFile /\ isAllowedDocument(file)
                         THEN removalPending \ {"ngo"} ELSE removalPending
    /\ IF file = NoFile
       THEN /\ ngoInput' = NoFile
            /\ UNCHANGED << error, ngoProofFile, removeNgoProofDocument >>
       ELSE IF ~isAllowedDocument(file)
       THEN rejectNgoProof
       ELSE acceptNgoProof(file)
    /\ UNCHANGED << form, loading, saving, uploadProgress, success, toast,
                    volunteerDocumentFile, removeVolunteerDocument, mounted,
                    loadRequest, saveRequest, formData, volunteerInput >>
    /\ useObjectUrls

\* Mutant: Remove File leaves the staged file in place.
removeVolunteerFile_KeepsFile ==
    /\ UNCHANGED volunteerDocumentFile
    /\ form' = [form EXCEPT !.volunteerDocumentUrl = ""]
    /\ removeVolunteerDocument' = TRUE

\* Lines 342-344.
removeVolunteerFile ==
    /\ volunteerDocumentFile' = NoFile
    /\ form' = [form EXCEPT !.volunteerDocumentUrl = ""]
    /\ removeVolunteerDocument' = TRUE

\* The Remove File button is rendered while the slot shows a document.
handleRemoveVolunteerFile ==
    /\ Interactive
    /\ form.role = "volunteer"
    /\ form.volunteerDocumentUrl # "" \/ volunteerDocumentFile # NoFile
    /\ removalPending' = IF form.volunteerDocumentUrl # ""
                         THEN removalPending \cup {"volunteer"} ELSE removalPending
    /\ removeVolunteerFile
    /\ lastDocEvent' = DocEvent("remove", "volunteer", NoFile)
    /\ UNCHANGED inFlight
    /\ lastReply' = NoReply
    /\ UNCHANGED toastElapsed
    /\ UNCHANGED << loading, saving, uploadProgress, error, success, toast,
                    ngoProofFile, removeNgoProofDocument, mounted, loadRequest,
                    saveRequest, formData, volunteerInput, ngoInput >>
    /\ useObjectUrls

\* Lines 348-350.
removeNgoProofFile ==
    /\ ngoProofFile' = NoFile
    /\ form' = [form EXCEPT !.ngoProofDocumentUrl = ""]
    /\ removeNgoProofDocument' = TRUE

handleRemoveNgoProofFile ==
    /\ Interactive
    /\ form.role = "ngo"
    /\ form.ngoProofDocumentUrl # "" \/ ngoProofFile # NoFile
    /\ removalPending' = IF form.ngoProofDocumentUrl # ""
                         THEN removalPending \cup {"ngo"} ELSE removalPending
    /\ removeNgoProofFile
    /\ lastDocEvent' = DocEvent("remove", "ngo", NoFile)
    /\ UNCHANGED inFlight
    /\ lastReply' = NoReply
    /\ UNCHANGED toastElapsed
    /\ UNCHANGED << loading, saving, uploadProgress, error, success, toast,
                    volunteerDocumentFile, removeVolunteerDocument, mounted,
                    loadRequest, saveRequest, formData, volunteerInput, ngoInput >>
    /\ useObjectUrls

(***************************************************************************)
(* handleSubmit (lines 353-465), one action per stretch between awaits.    *)
(* A setter called after the page is unmounted changes nothing.            *)
(***************************************************************************)
\* Mutant: the submit button stays enabled while a save is in progress.
canSubmit_WhileSaving ==
    /\ form.fullName # ""
    /\ form.role = "ngo" =>
           form.organizationName # "" /\ form.organizationDescription # ""

\* The browser fires submit only when every rendered required input is filled
\* and the submit button is enabled.
canSubmit ==
    /\ ~saving
    /\ form.fullName # ""
    /\ form.role = "ngo" =>
           form.organizationName # "" /\ form.organizationDescription # ""

\* Mutant: a new attempt does not reset the success message.
startAttempt_KeepsSuccess ==
    /\ error' = ""
    /\ UNCHANGED success
    /\ saving' = TRUE
    /\ uploadProgress' = 0

\* Lines 355-358.
startAttempt ==
    /\ error' = ""
    /\ success' = ""
    /\ saving' = TRUE
    /\ uploadProgress' = 0

\* Lines 354-399: the resets, and the PUT sent with the payload built from
\* the state of this render.
handleSubmit ==
    /\ Interactive
    /\ canSubmit
    /\ startAttempt
    /\ formData' = buildFormData(form, volunteerDocumentFile, ngoProofFile,
                                 removeVolunteerDocument, removeNgoProofDocument)
    /\ saveRequest' = "put"
    /\ lastDocEvent' = NoDocEvent
    /\ inFlight' = send(inFlight, "put")
    /\ lastReply' = NoReply
    /\ UNCHANGED toastElapsed
    /\ removalPending' = {}
    /\ UNCHANGED << form, loading, toast, volunteerDocumentFile, ngoProofFile,
                    removeVolunteerDocument, removeNgoProofDocument, mounted,
                    loadRequest, volunteerInput, ngoInput >>
    /\ useObjectUrls

\* Lines 373-378: an event whose total is unknown is dropped.
progressShown(loaded, total) ==
    IF mounted /\ total > 0 THEN percent(loaded, total) ELSE uploadProgress

\* Lines 372-379: request.upload.onprogress; lengthComputable is total > 0.
onprogress(loaded, total) ==
    /\ saveRequest = "put"
    /\ loaded <= total
    /\ uploadProgress' = progressShown(loaded, total)
    /\ lastDocEvent' = NoDocEvent
    /\ UNCHANGED inFlight
    /\ lastReply' = NoReply
    /\ UNCHANGED toastElapsed
    /\ UNCHANGED removalPending
    /\ UNCHANGED << form, loading, saving, error, success, toast,
                    volunteerDocumentFile, ngoProofFile, removeVolunteerDocument,
                    removeNgoProofDocument, mounted, loadRequest, saveRequest,
                    formData, volunteerInput, ngoInput >>
    /\ useObjectUrls

\* Mutant: the attempt ends without lowering the saving flag.
finishAttempt_StaysSaving ==
    /\ UNCHANGED saving
    /\ uploadProgress' = IF mounted THEN 0 ELSE uploadProgress

\* Mutant: the attempt ends without resetting the progress value.
finishAttempt_KeepsProgress ==
    /\ saving' = IF mounted THEN FALSE ELSE saving
    /\ UNCHANGED uploadProgress

\* Lines 461-464, the finally block.
finishAttempt ==
    /\ saving' = IF mounted THEN FALSE ELSE saving
    /\ uploadProgress' = IF mounted THEN 0 ELSE uploadProgress

\* Mutant: the error is set also on a page no longer mounted.
attemptFailed_AfterUnmount(message) ==
    /\ error' = message

\* Lines 457-460, the catch block.
attemptFailed(message) ==
    /\ error' = IF mounted THEN message ELSE error

\* Lines 381-434 and 457-464: the PUT settles.  A failure ends the attempt;
\* a success replaces the buffer when the body is well-formed and sends the
\* follow-up GET.
saveSettled(response) ==
    /\ saveRequest = "put"
    /\ formData' = Empty
    /\ lastDocEvent' = NoDocEvent
    /\ lastReply' = IF mounted THEN Settled("put", response) ELSE NoReply
    /\ UNCHANGED toastElapsed
    /\ UNCHANGED removalPending
    /\ IF saveError(response) # ""
       THEN /\ saveRequest' = "none"
            /\ inFlight' = settle(inFlight, "put")
            /\ attemptFailed(saveError(response))
            /\ finishAttempt
            /\ UNCHANGED << form, volunteerInput, ngoInput >>
       ELSE /\ saveRequest' = "get"
            /\ inFlight' = send(settle(inFlight, "put"), "get")
            /\ form' = IF mounted /\ parsesToObject(response.body)
                       THEN mapUserToForm(response.body.value)
                       ELSE form
            /\ RenderInputs(form')
            /\ UNCHANGED << error, saving, uploadProgress >>
    /\ UNCHANGED << loading, success, toast, volunteerDocumentFile, ngoProofFile,
                    removeVolunteerDocument, removeNgoProofDocument, mounted,
                    loadRequest >>
    /\ useObjectUrls

\* Mutant: a successful save leaves the NGO removal flag raised.
attemptSucceeded_KeepsNgoFlag ==
    /\ volunteerDocumentFile' = IF mounted THEN NoFile ELSE volunteerDocumentFile
    /\ ngoProofFile' = IF mounted THEN NoFile ELSE ngoProofFile
    /\ removeVolunteerDocument' = (~mounted /\ removeVolunteerDocument)
    /\ UNCHANGED removeNgoProofDocument
    /\ success' = IF mounted THEN UpdatedSuccessfully ELSE success
    /\ toast' = IF mounted THEN ToastText ELSE toast

\* Lines 451-456.
attemptSucceeded ==
    /\ volunteerDocumentFile' = IF mounted THEN NoFile ELSE volunteerDocumentFile
    /\ ngoProofFile' = IF mounted THEN NoFile ELSE ngoProofFile
    /\ removeVolunteerDocument' = (~mounted /\ removeVolunteerDocument)
    /\ removeNgoProofDocument' = (~mounted /\ removeNgoProofDocument)
    /\ success' = IF mounted THEN UpdatedSuccessfully ELSE success
    /\ toast' = IF mounted THEN ToastText ELSE toast

\* Lines 266-276: the effect runs when the toast's value has changed; its
\* cleanup clears the earlier timer and a non-empty toast arms a new one.
toastEffect(newToast) ==
    toastElapsed' = IF newToast # toast THEN 0 ELSE toastElapsed

\* Mutant: a follow-up read that fails empties the buffer.
latestProfile_ResetsOnFailure(response) ==
    IF ~response.failed /\ isOk(response.status) /\ readsObject(response)
    THEN mapUserToForm(response.body.value)
    ELSE defaultForm

\* Lines 436-449: the buffer after the follow-up read; a read that fails in
\* any way leaves it as it is.
latestProfile(response) ==
    IF ~response.failed /\ isOk(response.status) /\ readsObject(response)
    THEN mapUserToForm(response.body.value)
    ELSE form

\* Lines 436-464: the follow-up GET settles, whatever its outcome.
reconciled(response) ==
    /\ saveRequest = "get"
    /\ saveRequest' = "none"
    /\ lastDocEvent' = NoDocEvent
    /\ inFlight' = settle(inFlight, "get")
    /\ lastReply' = IF mounted THEN Settled("get", response) ELSE NoReply
    /\ UNCHANGED removalPending
    /\ form' = IF mounted THEN latestProfile(response) ELSE form
    /\ RenderInputs(form')
    /\ attemptSucceeded
    /\ toastEffect(toast')
    /\ finishAttempt
    /\ UNCHANGED << loading, error, mounted, loadRequest, formData >>
    /\ useObjectUrls

(***************************************************************************)
(* The toast timer (lines 266-276) and unmounting.                         *)
(***************************************************************************)
\* Time passes while a timer is armed; it does not pass a due timer.
tick(ms) ==
    /\ mounted
    /\ toast # ""
    /\ toastElapsed < ToastDelay
    /\ toastElapsed' = toastElapsed + ms
    /\ lastDocEvent' = NoDocEvent
    /\ UNCHANGED inFlight
    /\ lastReply' = NoReply
    /\ UNCHANGED removalPending
    /\ UNCHANGED << form, loading, saving, uploadProgress, error, success, toast,
                    volunteerDocumentFile, ngoProofFile, removeVolunteerDocument,
                    removeNgoProofDocument, mounted, loadRequest, saveRequest,
                    formData, volunteerInput, ngoInput >>
    /\ useObjectUrls

\* Lines 271-273: the timer's callback, due once the delay has run.
toastTimeout ==
    /\ mounted
    /\ toast # ""
    /\ toastElapsed >= ToastDelay
    /\ toast' = ""
    /\ toastEffect("")
    /\ lastDocEvent' = NoDocEvent
    /\ UNCHANGED inFlight
    /\ lastReply' = NoReply
    /\ UNCHANGED removalPending
    /\ UNCHANGED << form, loading, saving, uploadProgress, error, success,
                    volunteerDocumentFile, ngoProofFile, removeVolunteerDocument,
                    removeNgoProofDocument, mounted, loadRequest, saveRequest,
                    formData, volunteerInput, ngoInput >>
    /\ useObjectUrls

\* The cleanups run: the load's flag is lowered, the toast timer cleared and
\* the object URLs revoked (lines 261-263, 275, 279-283, 287-291).  The file
\* controls go with the page, and with them what the user had pending.
unmount ==
    /\ mounted
    /\ mounted' = FALSE
    /\ toastElapsed' = 0
    /\ lastDocEvent' = NoDocEvent
    /\ UNCHANGED inFlight
    /\ lastReply' = NoReply
    /\ removalPending' = {}
    /\ volunteerInput' = NoFile
    /\ ngoInput' = NoFile
    /\ UNCHANGED << form, loading, saving, uploadProgress, error, success, toast,
                    volunteerDocumentFile, ngoProofFile, removeVolunteerDocument,
                    removeNgoProofDocument, loadRequest, saveRequest, formData >>
    /\ objectUrls' = objectUrls \ {volunteerSelectedFileHref, ngoSelectedFileHref}
    /\ staleRevoke' = (\/ staleRevoke
                       \/ ~(({volunteerSelectedFileHref, ngoSelectedFileHref} \ {""})
                              \subseteq objectUrls))
    /\ UNCHANGED << volunteerSelectedFileHref, ngoSelectedFileHref >>

Load == \E response \in Responses :
            \E message \in IF response.failed THEN FetchMessages ELSE {""} :
                loadCurrentProfile(response, message)

Edit == \E edit \in Edits : handleChange(edit.name, edit.value)

SelectVolunteerFile == \E file \in Files \cup {NoFile} : handleVolunteerFileChange(file)

SelectNgoProof == \E file \in Files \cup {NoFile} : handleNgoProofChange(file)

Progress == \E total \in 0..MaxTotal, loaded \in 0..MaxTotal : onprogress(loaded, total)

SaveSettled == \E response \in Responses : saveSettled(response)

Reconciled == \E response \in Responses : reconciled(response)

Tick == tick(ClockStep)

Next ==
    \/ Load
    \/ Edit
    \/ SelectVolunteerFile
    \/ SelectNgoProof
    \/ handleRemoveVolunteerFile
    \/ handleRemoveNgoProofFile
    \/ handleSubmit
    \/ Progress
    \/ SaveSettled
    \/ Reconciled
    \/ toastTimeout
    \/ Tick
    \/ unmount

Spec == Init /\ [][Next]_vars

\* The transport answers or fails every request it was given.
FairSpec == Spec /\ WF_vars(SaveSettled) /\ WF_vars(Reconciled)

(***************************************************************************)
(* Properties.                                                             *)
(***************************************************************************)
AtMostOne(a, b, c) == ~(a /\ b) /\ ~(a /\ c) /\ ~(b /\ c)

\* C1 as stated: in every reachable state, for each document slot, at most one
\* of {remote URL non-empty, local file staged, removal flag raised} is active.
C1_AtMostOneActive ==
    /\ AtMostOne(form.volunteerDocumentUrl # "", volunteerDocumentFile # NoFile,
                 removeVolunteerDocument)
    /\ AtMostOne(form.ngoProofDocumentUrl # "", ngoProofFile # NoFile,
                 removeNgoProofDocument)

\* C1 as amended: for each slot a staged file and a raised removal flag are
\* never both active, and while no save is in progress a raised removal flag
\* goes with an empty remote URL.  (A staged file may stand beside the remote
\* URL it is to replace.)
C1_FileOrFlag ==
    /\ ~(volunteerDocumentFile # NoFile /\ removeVolunteerDocument)
    /\ ~(ngoProofFile # NoFile /\ removeNgoProofDocument)
    /\ ~saving /\ removeVolunteerDocument => form.volunteerDocumentUrl = ""
    /\ ~saving /\ removeNgoProofDocument => form.ngoProofDocumentUrl = ""

\* C1 witness: a slot whose staged file was removed: its flag is raised, alone,
\* with no save in progress, and the control still holds the file.
C1_Witness ==
    /\ ~saving
    /\ removeNgoProofDocument
    /\ form.ngoProofDocumentUrl = ""
    /\ ngoProofFile = NoFile
    /\ ngoInput # NoFile

\* A step that starts a submission attempt.
AttemptStarts == saveRequest = "none" /\ saveRequest' = "put"

\* C2 as stated: in no reachable state are the error message and the success
\* message both non-empty.
C2_NeverBoth == ~(error # "" /\ success # "")

\* C2 as amended: both messages are empty immediately after a submission
\* attempt starts, and they are both non-empty only when the error is the
\* file-rejection message (a file rejected during or after a successful save).
C2_BothOnlyByRejection ==
    /\ [](error # "" /\ success # "" => error = OnlyPdfOrDoc)
    /\ [][AttemptStarts => error' = "" /\ success' = ""]_vars

\* C2 witness: after a successful save, a rejected file shows its error beside
\* the success message.
C2_Witness ==
    /\ success = UpdatedSuccessfully
    /\ error = OnlyPdfOrDoc
    /\ lastDocEvent.op = "select"
    /\ ~saving

HasField(payload, name) == name \in DOMAIN payload

\* C3 as stated: after Remove File on a slot that holds a remote document (and
\* no file chosen for that slot since), the next payload submitted contains
\* the slot's removal field with value "true" and no file field for the slot.
C3_RemovalIsSent ==
    [][AttemptStarts =>
         /\ "volunteer" \in removalPending =>
                /\ HasField(formData', "removeDocument")
                /\ formData'["removeDocument"].text = "true"
                /\ ~HasField(formData', "file")
         /\ "ngo" \in removalPending =>
                /\ HasField(formData', "removeNgoProofDocument")
                /\ formData'["removeNgoProofDocument"].text = "true"
                /\ ~HasField(formData', "ngoProofFile")]_vars

\* A file the claims call allowed: its MIME type is in the allow-list or its
\* name ends, in any letter case, in .pdf, .doc or .docx.
NamedAsDocument(file) ==
    \E extension \in {".pdf", ".doc", ".docx"} :
        endsWith(toLowerCase(file.name), extension)

Disallowed(file) ==
    /\ file # NoFile
    /\ file.type \notin allowedMimeTypes
    /\ ~NamedAsDocument(file)

Allowed(file) ==
    /\ file # NoFile
    /\ file.type \in allowedMimeTypes \/ NamedAsDocument(file)

documents ==
    << form.volunteerDocumentUrl, form.ngoProofDocumentUrl, volunteerDocumentFile,
       ngoProofFile, removeVolunteerDocument, removeNgoProofDocument >>

\* C4: selecting a file that is not allowed, on either slot, sets the error to
\* exactly "Please upload a PDF or DOC file only." and leaves the remote URL,
\* the staged file and the removal flag of both slots as they were.
C4_RejectionKeepsDocuments ==
    [][lastDocEvent'.op = "select" /\ Disallowed(lastDocEvent'.file) =>
         /\ error' = "Please upload a PDF or DOC file only."
         /\ UNCHANGED documents]_vars

\* C4 witness: a file was just rejected while the slot holds a remote document
\* and a staged file.
C4_Witness ==
    /\ lastDocEvent.op = "select"
    /\ lastDocEvent.slot = "volunteer"
    /\ Disallowed(lastDocEvent.file)
    /\ error = OnlyPdfOrDoc
    /\ form.volunteerDocumentUrl # ""
    /\ volunteerDocumentFile # NoFile

\* C5: selecting an allowed file for a slot clears the error, makes the file
\* the slot's staged file, lowers the slot's removal flag, and leaves the other
\* slot's staged file and removal flag unchanged.
C5_AcceptanceStages ==
    [][lastDocEvent'.op = "select" /\ Allowed(lastDocEvent'.file) =>
         /\ error' = ""
         /\ lastDocEvent'.slot = "volunteer" =>
                /\ volunteerDocumentFile' = lastDocEvent'.file
                /\ ~removeVolunteerDocument'
                /\ UNCHANGED << ngoProofFile, removeNgoProofDocument >>
         /\ lastDocEvent'.slot = "ngo" =>
                /\ ngoProofFile' = lastDocEvent'.file
                /\ ~removeNgoProofDocument'
                /\ UNCHANGED << volunteerDocumentFile, removeVolunteerDocument >>]_vars

\* C5 witness: an allowed file was just selected on the NGO slot while the
\* rejection error was showing; it is staged and the error is gone.
C5_Witness ==
    /\ lastDocEvent.op = "select"
    /\ lastDocEvent.slot = "ngo"
    /\ Allowed(lastDocEvent.file)
    /\ lastDocEvent.before = OnlyPdfOrDoc
    /\ ngoProofFile = lastDocEvent.file
    /\ error = ""

\* C6: Remove File on a slot leaves the slot with an empty remote URL, no
\* staged file and its removal flag raised, and changes no other buffer field
\* and nothing of the other slot.
C6_RemoveClearsSlot ==
    [][lastDocEvent'.op = "remove" =>
         /\ lastDocEvent'.slot = "volunteer" =>
                /\ form' = [form EXCEPT !.volunteerDocumentUrl = ""]
                /\ volunteerDocumentFile' = NoFile
                /\ removeVolunteerDocument'
                /\ UNCHANGED << ngoProofFile, removeNgoProofDocument >>
         /\ lastDocEvent'.slot = "ngo" =>
                /\ form' = [form EXCEPT !.ngoProofDocumentUrl = ""]
                /\ ngoProofFile' = NoFile
                /\ removeNgoProofDocument'
                /\ UNCHANGED << volunteerDocumentFile, removeVolunteerDocument >>]_vars

\* C6 witness: Remove File was just clicked on the volunteer slot, which held a
\* staged file; the rest of the buffer is still filled.
C6_Witness ==
    /\ lastDocEvent.op = "remove"
    /\ lastDocEvent.slot = "volunteer"
    /\ volunteerInput # NoFile
    /\ volunteerDocumentFile = NoFile
    /\ form.volunteerDocumentUrl = ""
    /\ removeVolunteerDocument
    /\ form.fullName # ""

\* A step on which the component leaves Submitting.
LeavesSubmitting == saving /\ ~saving'

\* Once a submit has started the component, while it stays mounted, eventually
\* leaves Submitting; the success message is set only on leaving Submitting.
SubmittingEnds ==
    /\ (saving /\ mounted) ~> (~saving \/ ~mounted)
    /\ [][success' # "" /\ success' # success => LeavesSubmitting]_vars

\* C7 as stated: every submission leaves Submitting with exactly one of the
\* success message and the error message set, and reaches Success only through
\* Submitting.
C7_ExactlyOneOutcome ==
    /\ SubmittingEnds
    /\ [][LeavesSubmitting => (success' # "") # (error' # "")]_vars

\* C7 as amended: every submission leaves Submitting either with the error
\* message set and the success message empty, or with the success message set
\* and no error other than that of a file rejected during the attempt; Success
\* is reached only through Submitting.
C7_OneOutcomeButForRejection ==
    /\ SubmittingEnds
    /\ [][LeavesSubmitting =>
            \/ error' # "" /\ success' = ""
            \/ success' = UpdatedSuccessfully /\ error' \in {"", OnlyPdfOrDoc}]_vars

\* C7 witness: a submission has ended in Error with the server's message.
C7_Witness ==
    /\ mounted
    /\ ~saving
    /\ saveRequest = "none"
    /\ error = "Email already in use"
    /\ success = ""

\* C8: the progress value is 0 whenever no save is in progress and immediately
\* after a submit starts, and it changes to a non-zero value only while the PUT
\* is in flight, to the percentage (to the nearest whole number) of an event
\* whose total is known.
C8_ProgressResets ==
    /\ [](~saving => uploadProgress = 0)
    /\ [][AttemptStarts => uploadProgress' = 0]_vars
    /\ [][uploadProgress' # uploadProgress =>
            \/ uploadProgress' = 0
            \/ /\ saveRequest = "put"
               /\ saveRequest' = "put"
               /\ \E total \in 1..MaxTotal :
                      \E loaded \in 0..total :
                          /\ 200 * loaded <= 2 * uploadProgress' * total + total
                          /\ 2 * uploadProgress' * total <= 200 * loaded + total]_vars

\* C8 witness: a save in progress shows a non-zero progress value.
C8_Witness == saving /\ saveRequest = "put" /\ uploadProgress > 0

\* C9: when a save completes successfully (its follow-up read has settled, the
\* page still mounted), both staged files are cleared, both removal flags are
\* lowered, and the success message and the toast are set.
C9_SuccessClears ==
    [][saveRequest = "get" /\ saveRequest' = "none" /\ mounted =>
         /\ volunteerDocumentFile' = NoFile
         /\ ngoProofFile' = NoFile
         /\ ~removeVolunteerDocument'
         /\ ~removeNgoProofDocument'
         /\ success' = "Your profile has been updated successfully."
         /\ toast' = "Profile updated successfully."]_vars

\* C9 witness: a save has just completed successfully after a file was staged
\* for it: the control still holds the file, the staged file is gone.
C9_Witness ==
    /\ mounted
    /\ ~saving
    /\ saveRequest = "none"
    /\ success = UpdatedSuccessfully
    /\ toast = ToastText
    /\ ngoInput # NoFile
    /\ ngoProofFile = NoFile
    /\ ~removeNgoProofDocument

\* C10: when the page was unmounted while the initial load was in flight, the
\* completion of the load changes no component state.
C10_NoUpdateAfterUnmount ==
    [][~mounted /\ loadRequest = "pending" /\ loadRequest' = "done" =>
         UNCHANGED << form, volunteerDocumentFile, ngoProofFile,
                      removeVolunteerDocument, removeNgoProofDocument,
                      error, loading, saving, uploadProgress, success, toast >>]_vars

\* C10 witness: the load has completed after the unmount, the page still in
\* its loading state.
C10_Witness == ~mounted /\ loadRequest = "done" /\ loading /\ error = ""

\* C11 as stated: after every successful save the toast is visible at once and
\* stays visible until 2.5 seconds have passed since that save completed, also
\* when the save succeeds while the toast of an earlier save is still showing:
\* on a mounted page, the completion of a successful save shows the toast with
\* a timer that starts from that completion, and the toast is cleared only by
\* a timer that has run the full delay.
C11_ToastStaysFullDelay ==
    [][/\ mounted /\ lastReply'.request = "get" =>
              toast' = ToastText /\ toastElapsed' = 0
       /\ mounted' /\ toast # "" /\ toast' = "" =>
              toastElapsed >= ToastDelay]_vars

\* The save request was answered, with a status outside 200..299.
Refused(response) == ~response.failed /\ ~isOk(response.status)

HasMessageField(response) ==
    response.body.kind = "object" /\ "message" \in DOMAIN response.body.value

\* C12 as stated: for a save answered with a non-success status the error shown
\* is the configuration message when the content type is HTML, otherwise the
\* server's message string when the body is a JSON object with a message field,
\* otherwise the generic update-failure message.
C12_RefusalMessage ==
    mounted /\ lastReply.request = "put" /\ Refused(lastReply.response) =>
        error = IF isHtmlResponse(lastReply.response) THEN ApiNotReachable
                ELSE IF HasMessageField(lastReply.response)
                     THEN lastReply.response.body.value.message
                ELSE UpdateFailed

\* C12 amended: as stated, but the server's message is shown only when it is
\* a non-empty string; an empty message gives the generic message.
C12_RefusalMessageNonEmpty ==
    mounted /\ lastReply.request = "put" /\ Refused(lastReply.response) =>
        error = IF isHtmlResponse(lastReply.response) THEN ApiNotReachable
                ELSE IF /\ HasMessageField(lastReply.response)
                        /\ lastReply.response.body.value.message # ""
                     THEN lastReply.response.body.value.message
                ELSE UpdateFailed

\* C12 witness: a refused save has ended with the server's message on screen.
C12_Witness ==
    /\ mounted
    /\ lastReply = Settled("put", Reply(400, "", EmailInUse))
    /\ saveRequest = "none"
    /\ ~saving
    /\ error = "Email already in use"
    /\ success = ""

\* The loader treats the response as a failure: a status outside 200..299, or
\* a body that does not read as a JSON object.
LoadFails(response) ==
    \/ ~isOk(response.status)
    \/ ~isJsonResponse(response)
    \/ response.body.kind \notin {"object", "array"}

\* C13 as stated: whenever the initial load fails, the error shown is the
\* configuration message if the response is HTML and "Unable to fetch profile
\* details." for every other response the loader treats as a failure, whatever
\* its status code.
C13_LoadFailureMessage ==
    /\ mounted
    /\ lastReply.request = "load"
    /\ ~lastReply.response.failed
    /\ LoadFails(lastReply.response)
    => error = IF isHtmlResponse(lastReply.response)
               THEN ApiNotReachable ELSE UnableToFetch

OrganizationFields ==
    {"organizationName", "registrationNumber", "organizationAddress",
     "organizationWebsite", "contactPerson", "organizationDescription"}

VolunteerOnly == {"skills", "file", "removeDocument"}

NgoOnly == OrganizationFields \cup {"ngoProofFile", "removeNgoProofDocument"}

\* C14: the payload of every submit carries only the field subset of the
\* buffer's role (volunteer: skills, and file / removeDocument exactly when
\* staged / flagged, none of the NGO fields; ngo: the organization fields, and
\* ngoProofFile / removeNgoProofDocument exactly when staged / flagged, none of
\* the volunteer fields), and building it leaves the buffer as it was.
C14_RoleSubsetOnly ==
    [][AttemptStarts =>
         /\ form' = form
         /\ form.role = "volunteer" =>
                /\ HasField(formData', "skills")
                /\ HasField(formData', "file") <=> volunteerDocumentFile # NoFile
                /\ HasField(formData', "removeDocument") <=> removeVolunteerDocument
                /\ DOMAIN formData' \cap NgoOnly = {}
         /\ form.role = "ngo" =>
                /\ OrganizationFields \subseteq DOMAIN formData'
                /\ HasField(formData', "ngoProofFile") <=> ngoProofFile # NoFile
                /\ HasField(formData', "removeNgoProofDocument")
                       <=> removeNgoProofDocument
                /\ DOMAIN formData' \cap VolunteerOnly = {}]_vars

\* C14 witness: an NGO's payload is in flight with the staged proof file and
\* without the skills the buffer still holds.
C14_Witness ==
    /\ saveRequest = "put"
    /\ form.role = "ngo"
    /\ form.skills # ""
    /\ HasField(formData, "ngoProofFile")
    /\ ~HasField(formData, "skills")
    /\ formData["organizationName"].text = form.organizationName

\* The reply's body replaced the buffer: a load or a follow-up read answered
\* 2xx with a JSON object, or a save answered 2xx with a body that parses to one.
Adopted(reply) ==
    /\ reply.request # ""
    /\ ~reply.response.failed
    /\ isOk(reply.response.status)
    /\ reply.response.body.kind \in {"object", "array"}
    /\ reply.request \in {"load", "get"} => isJsonResponse(reply.response)

\* The server's role, "" when the body has none.
ServerRole(reply) ==
    IF "role" \in DOMAIN reply.response.body.value
    THEN reply.response.body.value.role ELSE ""

\* C15: the buffer's role is always volunteer or ngo; a load or save response
\* that replaces the buffer gives ngo exactly when the server's role equals
\* "ngo" in any letter case, volunteer otherwise (also when absent); the role
\* changes only with such a response, never by a user edit; and the role pill
\* reads "NGO" exactly when the role is ngo, "Volunteer" otherwise.
C15_RoleNormalized ==
    /\ [](form.role \in {"volunteer", "ngo"})
    /\ [](mounted /\ Adopted(lastReply) =>
             (form.role = "ngo" <=> toLowerCase(ServerRole(lastReply)) = "ngo"))
    /\ [](roleLabel = IF form.role = "ngo" THEN "NGO" ELSE "Volunteer")
    /\ [][form'.role # form.role => Adopted(lastReply')]_vars

\* C15 witness: the server spelt the role "NGO", the buffer holds ngo and the
\* pill reads "NGO"; the user has since edited a field.
C15_Witness ==
    /\ mounted
    /\ form.role = "ngo"
    /\ roleLabel = "NGO"
    /\ form.fullName = "Ann Lee"
    /\ form.organizationName = "Aid"
    /\ form.ngoProofDocumentUrl = "/docs/proof.pdf"
    /\ lastReply = NoReply
    /\ saveRequest = "none"

\* C16: each slot has at most one live object URL and it is the URL of the
\* slot's staged file; a URL is revoked when its file stops being the staged
\* one or when the page unmounts, never a second time; after unmount no object
\* URL is live.
C16_ObjectUrlsReleased ==
    /\ mounted =>
          objectUrls =
              (IF volunteerDocumentFile # NoFile
               THEN {createObjectURL("volunteer", volunteerDocumentFile)} ELSE {})
              \cup (IF ngoProofFile # NoFile
                    THEN {createObjectURL("ngo", ngoProofFile)} ELSE {})
    /\ ~mounted => objectUrls = {}
    /\ ~staleRevoke

\* C16 witness: the page was unmounted with a file staged; its URL is revoked.
C16_Witness ==
    /\ ~mounted
    /\ volunteerDocumentFile # NoFile
    /\ volunteerSelectedFileHref = createObjectURL("volunteer", volunteerDocumentFile)
    /\ objectUrls = {}

C18_OneRequestInFlight ==
    /\ [](inFlight.load + inFlight.put + inFlight.get <= 1)
    /\ [][inFlight'.get > inFlight.get => inFlight'.put < inFlight.put]_vars

\* C18 witness: the follow-up read of a save is the one request in flight.
C18_Witness ==
    /\ mounted
    /\ saving
    /\ inFlight = [load |-> 0, put |-> 0, get |-> 1]

\* The follow-up read failed: a transport error, a status outside 200..299,
\* or a body that is not JSON, is malformed or is no object.
ReadFails(response) ==
    \/ response.failed
    \/ ~isOk(response.status)
    \/ ~isJsonResponse(response)
    \/ response.body.kind \notin {"object", "array"}

\* C19 as stated: a failure of the follow-up read after a successful save is
\* never surfaced: the submission ends in Success with the error message
\* empty, and the buffer is left as the save response (and the user since)
\* made it.
C19_ReadFailureSilent ==
    /\ [](mounted /\ lastReply.request = "get" /\ ReadFails(lastReply.response) =>
             success = UpdatedSuccessfully /\ ~saving /\ error = "")
    /\ [][mounted /\ lastReply'.request = "get" /\ ReadFails(lastReply'.response) =>
             form' = form]_vars

\* C19 amended: the failed read changes neither the error message nor the
\* buffer and the submission ends in Success; the error message is empty
\* unless a file was rejected while the submission was in progress.
C19_ReadFailureChangesNothing ==
    /\ [](mounted /\ lastReply.request = "get" /\ ReadFails(lastReply.response) =>
             success = UpdatedSuccessfully /\ ~saving /\ error \in {"", OnlyPdfOrDoc})
    /\ [][mounted /\ lastReply'.request = "get" /\ ReadFails(lastReply'.response) =>
             form' = form /\ error' = error]_vars

\* C19 witness: the follow-up read was refused; the submission has ended in
\* Success and the buffer holds what the save response returned.
C19_Witness ==
    /\ mounted
    /\ lastReply = Settled("get", Reply(500, "", Body("empty")))
    /\ success = UpdatedSuccessfully
    /\ error = ""
    /\ ~saving
    /\ form.role = "ngo"
    /\ form.organizationName = "Aid"
    /\ form.ngoProofDocumentUrl = ""
    /\ form.skills = "Logistics"

\* A submit event: handleSubmit raises the saving flag.
SubmitEvent == ~saving /\ saving'

\* The save request has just been answered with a status in 200..299.
SaveSucceeds(reply) ==
    reply.request = "put" /\ ~reply.response.failed /\ isOk(reply.response.status)

\* The save request has just failed: a transport error or another status.
SaveFails(reply) ==
    reply.request = "put" /\ (reply.response.failed \/ ~isOk(reply.response.status))

\* C20: there is no retry.  Every submit event sends exactly one save request
\* and nothing else; no other step sends a save request, and none sends a
\* load; a save that fails is followed by no request of any kind; a save that
\* succeeds is followed by exactly one read, sent in the step in which the
\* save completes, and a read is sent in no other step.
C20_NoRetry ==
    [][/\ SubmitEvent => inFlight' = [inFlight EXCEPT !.put = @ + 1]
       /\ ~SubmitEvent => inFlight'.put <= inFlight.put
       /\ inFlight'.load <= inFlight.load
       /\ SaveFails(lastReply') => inFlight' = [inFlight EXCEPT !.put = @ - 1]
       /\ SaveSucceeds(lastReply') =>
              inFlight' = [inFlight EXCEPT !.put = @ - 1, !.get = @ + 1]
       /\ inFlight'.get > inFlight.get =>
              /\ inFlight'.put = inFlight.put - 1
              /\ inFlight'.get = inFlight.get + 1
              /\ ~SaveFails(lastReply')]_vars

\* C20 witness: a save has just been refused and no request is in flight.
C20_Witness ==
    /\ mounted
    /\ SaveFails(lastReply)
    /\ error = UpdateFailed
    /\ ~saving
    /\ inFlight = [load |-> 0, put |-> 0, get |-> 0]

\* The initial load has just failed: the fetch was rejected, or the loader
\* treats the response as a failure.
LoadFailed(reply) ==
    reply.request = "load" /\ (reply.response.failed \/ LoadFails(reply.response))

\* C21: every failure leaves the form usable for retry: after a failed load or
\* a failed save the page is neither loading nor saving (the submit control
\* is enabled), and the completion of a failed save changes only the error
\* message, the saving flag and the progress value: every buffer field, both
\* staged files and both removal flags (and the success message and the
\* toast) stay as they were.
C21_FailureLeavesFormUsable ==
    /\ [](LoadFailed(lastReply) \/ SaveFails(lastReply) =>
             ~loading /\ ~saving)
    /\ [][SaveFails(lastReply') =>
             UNCHANGED << form, volunteerDocumentFile, ngoProofFile,
                          removeVolunteerDocument, removeNgoProofDocument,
                          success, toast, loading >>]_vars

\* C21 witness: a save has just failed with a proof file staged and the
\* buffer edited; the form is idle with all of it in place.
C21_Witness ==
    /\ mounted
    /\ SaveFails(lastReply)
    /\ ~loading
    /\ ~saving
    /\ error = NetworkErrorWhileUpdating
    /\ form.role = "ngo"
    /\ form.fullName = "Ann Lee"
    /\ ngoProofFile # NoFile
    /\ form.ngoProofDocumentUrl # ""

\* A save has just completed with success: its follow-up read has settled.
SaveCompletes == lastReply'.request = "get"

\* C22 as stated, for an intent raised while the save is in flight: a file
\* staged or a removal triggered while a save is in flight survives that
\* save's completion, since no payload contained it and no later user action
\* on its slot cleared it.
C22_IntentNeverDroppedUnsent ==
    [][SaveCompletes =>
         /\ lastDocEvent.op = "select" /\ Allowed(lastDocEvent.file) =>
                /\ lastDocEvent.slot = "volunteer" =>
                       volunteerDocumentFile' = lastDocEvent.file
                /\ lastDocEvent.slot = "ngo" =>
                       ngoProofFile' = lastDocEvent.file
         /\ "volunteer" \in removalPending => removeVolunteerDocument'
         /\ "ngo" \in removalPending => removeNgoProofDocument']_vars
====
